---- MODULE Spec2Model ----
(***************************************************************************)
(* Model of the penpot-mcp server's session-resilient transport layer:     *)
(*   - InMemoryEventStore (storeEvent / cleanupOldEvents /                 *)
(*     replayEventsAfter), specification Spec;                             *)
(*   - PenpotMcpServer.setupHttpEndpoints (the session registry and the    *)
(*     five HTTP handlers), specification SpecHttp;                        *)
(*   - the plugin page's WebSocket connection management (main.ts),        *)
(*     specifications SpecPlugin and SpecPluginLive.                       *)
(* Strings whose characters matter (stream ids, event ids) are sequences   *)
(* of one-character strings, so that split("_") and localeCompare are      *)
(* computed and not assumed.                                               *)
(***************************************************************************)
EXTENDS Integers, Sequences, FiniteSets, Bags, TLC

VARIABLES
    \* ---- InMemoryEventStore -------------------------------------------
    events,        \* the Map `events`, as the sequence of its entries in insertion order
    now,           \* the reading of Date.now()
    arrival,       \* history: the storeEvent calls so far, in call order
    replay,        \* the last replayEventsAfter call: its marker, result and send calls
    op,            \* the last operation of the store that ran
    \* ---- PenpotMcpServer ----------------------------------------------
    streamable,    \* transports.streamable: the own properties of the object
    eventStores,   \* the Map eventStores: session id -> event store
    sse,           \* transports.sse: the own properties of the object
    tr,            \* the StreamableHTTPServerTransport objects created so far
    sseOpen,       \* the SSEServerTransports whose response has not closed yet
    nSse,          \* the number of SSEServerTransports created so far
    inflight,      \* the requests suspended at an await of their handler (a bag)
    last,          \* what the last step answered or ran to completion, if anything
    nReq,          \* the number of HTTP requests received so far
    \* ---- plugin page (main.ts) -----------------------------------------
    socks,         \* the WebSockets created so far: the readyState of each
    ws,            \* the variable ws: a socket or null
    pingInterval,  \* the variable pingInterval: an interval id or null
    reconnectTimeout, \* the variable reconnectTimeout: a timeout id or null
    intervals,     \* the intervals that are set and not cleared
    timers,        \* the timeouts that are set and have neither fired nor been cleared
    nIds,          \* the number of timer ids handed out by setInterval / setTimeout
    clicks,        \* the clicks on the connect button so far
    closes,        \* the close events of sockets so far
    plast          \* the last event the page handled

storeVars == <<events, now, arrival, replay, op>>
httpVars == <<streamable, eventStores, sse, tr, sseOpen, nSse, inflight, last, nReq>>
pluginVars == <<socks, ws, pingInterval, reconnectTimeout, intervals, timers,
                nIds, clicks, closes, plast>>
vars == <<events, now, arrival, replay, op,
          streamable, eventStores, sse, tr, sseOpen, nSse, inflight, last, nReq,
          socks, ws, pingInterval, reconnectTimeout, intervals, timers,
          nIds, clicks, closes, plast>>

\* ------------------------------------------------------------------------
\* Bounds of the model
\* ------------------------------------------------------------------------
MaxStores == 4      \* storeEvent calls in a run
MaxTicks == 2       \* clock ticks in a run
MaxReqs == 3        \* HTTP requests in a run
MaxInflight == 2    \* requests suspended at an await at the same time
MaxHeld == 4        \* events in a store that replayEventsAfter is applied to
MaxClicks == 2      \* clicks on the connect button in a run
MaxCloses == 2      \* close events of WebSockets in a run

\* Program constants, scaled down (the code has 3600000 ms and 1000 events).
maxAge == 1
maxEventsPerStream == 2

\* Date.now() at the start of a run; two decimal digits stand for the
\* thirteen of a real timestamp (same width for every reading of a run).
Epoch == 10

\* Stream ids the transport passes to storeEvent: a plain one (the transport
\* draws a UUID for the stream of a POST) and one that begins with the
\* delimiter (its standalone GET stream is named "_GET_stream").
StreamIds == { <<"s">>, <<"_", "g">> }

\* Math.random().toString(36).substring(2, 10), two possible outcomes.
Rands == { <<"a">>, <<"b">> }

\* Message payloads: the k-th storeEvent call of a run carries Messages[k]
\* (the store never inspects a payload; distinct payloads tell a stored
\* event from the one that replaced it).
Messages == <<"m1", "m2", "m3", "m4", "m5", "m6">>

\* ------------------------------------------------------------------------
\* String helpers
\* ------------------------------------------------------------------------
Min(S) == CHOOSE x \in S : \A y \in S : x <= y

Digits == <<"0", "1", "2", "3", "4", "5", "6", "7", "8", "9">>

\* `${Date.now()}`: the decimal rendering of a timestamp.
NumStr(n) == <<Digits[((n \div 10) % 10) + 1], Digits[(n % 10) + 1]>>

\* Collation rank of a character under localeCompare: punctuation before
\* digits before letters.
CharRank(c) ==
    CASE c = "_" -> 0
      [] c = "0" -> 1 [] c = "1" -> 2 [] c = "2" -> 3 [] c = "3" -> 4
      [] c = "4" -> 5 [] c = "5" -> 6 [] c = "6" -> 7 [] c = "7" -> 8
      [] c = "8" -> 9 [] c = "9" -> 10
      [] c = "a" -> 11 [] c = "b" -> 12 [] c = "g" -> 13
      [] c = "s" -> 14 [] c = "x" -> 15 [] c = "z" -> 16

\* a.localeCompare(b) < 0
LocaleLess(a, b) ==
    LET diff == { i \in 1..Min({Len(a), Len(b)}) : a[i] # b[i] }
    IN  IF diff = {} THEN Len(a) < Len(b)
        ELSE CharRank(a[Min(diff)]) < CharRank(b[Min(diff)])

\* eventId.split("_")[0]
FirstPart(eventId) ==
    LET idx == { i \in 1..Len(eventId) : eventId[i] = "_" }
    IN  IF idx = {} THEN eventId ELSE SubSeq(eventId, 1, Min(idx) - 1)

\* ------------------------------------------------------------------------
\* InMemoryEventStore
\* ------------------------------------------------------------------------
generateEventId(streamId, t, r) ==
    streamId \o <<"_">> \o NumStr(t) \o <<"_">> \o r

getStreamIdFromEventId(eventId) == FirstPart(eventId)

\* Map.has / Map.set on the entry sequence: set keeps the position of a key
\* that is already present and replaces its value.
Ids(evs) == { evs[i].id : i \in 1..Len(evs) }
MapHas(evs, id) == id \in Ids(evs)
MapSet(evs, e) ==
    IF MapHas(evs, e.id)
    THEN [i \in 1..Len(evs) |-> IF evs[i].id = e.id THEN e ELSE evs[i]]
    ELSE Append(evs, e)

\* Array.prototype.sort((a, b) => a[1].timestamp - b[1].timestamp): stable.
InsertByTimestamp(sorted, x) ==
    LET gt == { i \in 1..Len(sorted) : sorted[i].timestamp > x.timestamp }
        p  == IF gt = {} THEN Len(sorted) + 1 ELSE Min(gt)
    IN  SubSeq(sorted, 1, p - 1) \o <<x>> \o SubSeq(sorted, p, Len(sorted))

RECURSIVE SortByTimestamp(_)
SortByTimestamp(s) ==
    IF s = <<>> THEN <<>>
    ELSE InsertByTimestamp(SortByTimestamp(SubSeq(s, 1, Len(s) - 1)), s[Len(s)])

\* Array.prototype.sort((a, b) => a[0].localeCompare(b[0])); keys are unique.
InsertAtEnd(sorted, x) == Append(sorted, x)
InsertById(sorted, x) ==
    LET gt == { i \in 1..Len(sorted) : LocaleLess(x.id, sorted[i].id) }
        p  == IF gt = {} THEN Len(sorted) + 1 ELSE Min(gt)
    IN  SubSeq(sorted, 1, p - 1) \o <<x>> \o SubSeq(sorted, p, Len(sorted))

RECURSIVE SortById(_)
SortById(s) ==
    IF s = <<>> THEN <<>>
    ELSE InsertById(SortById(SubSeq(s, 1, Len(s) - 1)), s[Len(s)])

Expired(e, t) == t - e.timestamp > maxAge

OfStream(evs, streamId) == SelectSeq(evs, LAMBDA e : e.streamId = streamId)

\* cleanupOldEvents: the first loop drops the expired entries and counts the
\* rest per stream; the second removes, per stream over the cap, the first
\* (count - cap) entries of the stream in timestamp order.
cleanupOldEvents(evs, t) ==
    LET kept == SelectSeq(evs, LAMBDA e : ~Expired(e, t))
        removed(streamId) ==
            LET streamEvents == SortByTimestamp(OfStream(kept, streamId))
                count == Len(streamEvents)
            IN  IF count > maxEventsPerStream
                THEN { streamEvents[i].id : i \in 1..(count - maxEventsPerStream) }
                ELSE {}
    IN  SelectSeq(kept, LAMBDA e : e.id \notin removed(e.streamId))

\* The send calls of replayEventsAfter's loop over the sorted entries.
RECURSIVE ReplayLoop(_, _, _, _)
ReplayLoop(sortedEvents, streamId, lastEventId, foundLastEvent) ==
    IF sortedEvents = <<>> THEN <<>>
    ELSE LET e == Head(sortedEvents)
             rest == Tail(sortedEvents)
         IN  IF e.streamId # streamId
             THEN ReplayLoop(rest, streamId, lastEventId, foundLastEvent)
             ELSE IF e.id = lastEventId
             THEN ReplayLoop(rest, streamId, lastEventId, TRUE)
             ELSE IF foundLastEvent
             THEN <<[id |-> e.id, message |-> e.message]>>
                      \o ReplayLoop(rest, streamId, lastEventId, foundLastEvent)
             ELSE ReplayLoop(rest, streamId, lastEventId, foundLastEvent)

\* replayEventsAfter(lastEventId, {send}): the returned stream id and the
\* send calls, in order.
replayNoHasCheck(evs, lastEventId) ==
    LET streamId == getStreamIdFromEventId(lastEventId)
    IN  IF streamId = <<>>
        THEN [ret |-> <<>>, sent |-> <<>>]
        ELSE [ret |-> streamId,
              sent |-> ReplayLoop(SortById(evs), streamId, lastEventId, FALSE)]
replayEventsAfter(evs, lastEventId) ==
    IF lastEventId = <<>> \/ ~MapHas(evs, lastEventId)
    THEN [ret |-> <<>>, sent |-> <<>>]
    ELSE LET streamId == getStreamIdFromEventId(lastEventId)
         IN  IF streamId = <<>>
             THEN [ret |-> <<>>, sent |-> <<>>]
             ELSE [ret |-> streamId,
                   sent |-> ReplayLoop(SortById(evs), streamId, lastEventId, FALSE)]

\* ------------------------------------------------------------------------
\* Actions of the event store
\* ------------------------------------------------------------------------
NoReplay == [marker |-> <<>>, ret |-> <<>>, sent |-> <<>>]

\* Ids a client may present as Last-Event-ID: every id storeEvent has
\* returned so far (stored or evicted since), one it never returns, and the
\* empty string.
NeverStoredId == generateEventId(<<"s">>, Epoch, <<"z">>)
Markers == Ids(arrival) \cup { NeverStoredId, <<>> }

StoreInit ==
    /\ events = <<>>
    /\ now = Epoch
    /\ arrival = <<>>
    /\ replay = NoReplay
    /\ op = "init"

\* storeEvent(streamId, message), cleanupOldEvents included.
StoreEvent(streamId, r) ==
    /\ Len(arrival) < MaxStores
    /\ LET message == Messages[Len(arrival) + 1]
           eventId == generateEventId(streamId, now, r)
           e == [id |-> eventId, streamId |-> streamId,
                 message |-> message, timestamp |-> now]
       IN  /\ events' = cleanupOldEvents(MapSet(events, e), now)
           /\ arrival' = Append(arrival, e)
    /\ replay' = NoReplay
    /\ op' = "store"
    /\ UNCHANGED now
    /\ UNCHANGED httpVars
    /\ UNCHANGED pluginVars

\* replayEventsAfter(lastEventId, {send}).
ReplayEventsAfter(lastEventId) ==
    /\ replay' = [marker |-> lastEventId] @@ replayEventsAfter(events, lastEventId)
    /\ op' = "replay"
    /\ UNCHANGED <<events, now, arrival>>
    /\ UNCHANGED httpVars
    /\ UNCHANGED pluginVars

\* The wall clock advances.
Tick ==
    /\ now < Epoch + MaxTicks
    /\ now' = now + 1
    /\ replay' = NoReplay
    /\ op' = "tick"
    /\ UNCHANGED <<events, arrival>>
    /\ UNCHANGED httpVars
    /\ UNCHANGED pluginVars

StoreNext ==
    \/ \E streamId \in StreamIds, r \in Rands : StoreEvent(streamId, r)
    \/ \E lastEventId \in Markers : ReplayEventsAfter(lastEventId)
    \/ Tick

\* ------------------------------------------------------------------------
\* PenpotMcpServer: the session registry and the HTTP handlers
\* ------------------------------------------------------------------------
\* The value `undefined` (an absent header or query parameter, a session id
\* not assigned yet).
Undefined == "<undefined>"

\* randomUUID(): the k-th streamable transport draws Uuids[k], the k-th
\* SSE transport SseIds[k]; a UUID is never drawn twice.
Uuids == <<"u1", "u2", "u3", "u4", "u5", "u6">>
SseIds == <<"e1", "e2", "e3", "e4", "e5", "e6">>

\* transports.streamable and transports.sse are object literals: a property
\* read that finds no own property continues in Object.prototype, whose
\* members (constructor, toString, __proto__, ...) are truthy and are not
\* transports.
ProtoKeys == { "constructor" }
NotATransport == 0
Missing == -1

\* !!value for a string or undefined.
Truthy(value) == value # Undefined /\ value # ""

\* obj[key]
LookupFirst(obj, key) ==
    IF key \in DOMAIN obj THEN obj[CHOOSE k \in DOMAIN obj : TRUE]
    ELSE IF key \in ProtoKeys THEN NotATransport
    ELSE Missing
Lookup(obj, key) ==
    IF key \in DOMAIN obj THEN obj[key]
    ELSE IF key \in ProtoKeys THEN NotATransport
    ELSE Missing

\* obj[key] = value / map.set(key, value), and delete obj[key] / map.delete(key)
Put(obj, key, value) ==
    [k \in DOMAIN obj \cup {key} |-> IF k = key THEN value ELSE obj[k]]
Del(obj, key) == [k \in DOMAIN obj \ {key} |-> obj[k]]

EmptyMap == [k \in {} |-> 0]

\* Session ids a client can put in the mcp-session-id header: none, an id
\* the server never issued, a member name of Object.prototype, and every id
\* the server has issued so far. Undefined stands for the absent and for the
\* empty header alike: the handlers only test !sessionId on such a value.
IssuedSids == { tr[t].sessionId : t \in 1..Len(tr) } \ { Undefined }
HeaderValues == { Undefined, "x", "constructor" } \cup IssuedSids

\* Values of the sessionId query parameter of POST /messages.
IssuedSseIds == { SseIds[k] : k \in 1..nSse }
QueryValues == { "x", "constructor" } \cup IssuedSseIds \cup IssuedSids

\* What awaiting transport.handleRequest / handlePostMessage / connect can
\* do: write the response and resolve, reject before any header is written,
\* or reject after the headers are written.
Outcomes == { "responded", "throwBefore", "throwAfter" }

\* A response: `responses` counts the responses the request got; a response
\* the transport wrote itself is recorded with status 200 and no code.
NoCode == 0
Answer(kind, sessionId, isInit, known, transport, responses, status, code) ==
    [kind |-> kind, sessionId |-> sessionId, isInit |-> isInit, known |-> known,
     transport |-> transport, responses |-> responses, status |-> status,
     code |-> code]

\* The step answered no request and completed no callback.
NoAnswer ==
    [kind |-> "none", sessionId |-> Undefined, isInit |-> FALSE, known |-> FALSE,
     transport |-> Missing, responses |-> 0, status |-> 0, code |-> NoCode]

Suspend(kind, sessionId, isInit, known, transport, pc) ==
    [kind |-> kind, sessionId |-> sessionId, isInit |-> isInit, known |-> known,
     transport |-> transport, pc |-> pc]

\* The suspended requests form a bag: they have no order among them.
Add(bag, r) == bag (+) SetToBag({r})
Remove(bag, r) == bag (-) SetToBag({r})
Suspended == BagToSet(inflight)

\* An async handler without try/catch rejects: the handler itself answers
\* nothing; whether the framework answers in its place (a 500 of its error
\* handler) depends on the Express version, which the source does not fix.
Unhandled(r, headersSent, frameworkAnswers) ==
    IF headersSent
    THEN Answer(r.kind, r.sessionId, r.isInit, r.known, r.transport, 1, 200, NoCode)
    ELSE IF frameworkAnswers
    THEN Answer(r.kind, r.sessionId, r.isInit, r.known, r.transport, 1, 500, NoCode)
    ELSE Answer(r.kind, r.sessionId, r.isInit, r.known, r.transport, 0, 0, NoCode)

HttpInit ==
    /\ streamable = EmptyMap
    /\ eventStores = EmptyMap
    /\ sse = EmptyMap
    /\ tr = <<>>
    /\ sseOpen = {}
    /\ nSse = 0
    /\ inflight = EmptyBag
    /\ last = NoAnswer
    /\ nReq = 0

\* sessionIdGenerator: () => randomUUID(), called by the t-th transport.
SameSessionId(t) == Uuids[1]
NewSessionId(t) == Uuids[t]

\* The event store handed to the t-th transport: the one created just before
\* it by the same call of the handler (stores are numbered as transports).
SharedStore(t) == 1
StoreOf(t) == t

\* onsessioninitialized(id) of the t-th transport.
RegisterTransportOnly(id, t) ==
    /\ streamable' = Put(streamable, id, t)
    /\ UNCHANGED eventStores
Register(id, t) ==
    /\ streamable' = Put(streamable, id, t)
    /\ eventStores' = Put(eventStores, id, StoreOf(t))

\* res.status(400).send("Session ID required") of GET /mcp.
SessionNotFound(sessionId, known) ==
    Answer("GET /mcp", sessionId, FALSE, known, Missing, 1, 404, -32001)
SessionIdRequired(sessionId, known) ==
    Answer("GET /mcp", sessionId, FALSE, known, Missing, 1, 400, NoCode)

\* transport.onclose, the handler set when the transport is created.
OnCloseKeepsStore(t) ==
    LET sid == tr[t].sessionId
    IN  IF Truthy(sid) /\ Lookup(streamable, sid) # Missing
        THEN /\ streamable' = Del(streamable, sid)
             /\ UNCHANGED eventStores
        ELSE UNCHANGED <<streamable, eventStores>>
OnClose(t) ==
    LET sid == tr[t].sessionId
    IN  IF Truthy(sid) /\ Lookup(streamable, sid) # Missing
        THEN /\ streamable' = Del(streamable, sid)
             /\ eventStores' = Del(eventStores, sid)
        ELSE UNCHANGED <<streamable, eventStores>>

\* The guard of the only branch that creates a transport:
\* !sessionId && isInitializeRequest(req.body).
IsNewSessionAnyId(sessionId, isInit) == isInit
IsNewSession(sessionId, isInit) == ~Truthy(sessionId) /\ isInit

\* POST /mcp up to its first await after the dispatch on the session id.
PostMcp(sessionId, isInit) ==
    /\ nReq < MaxReqs
    /\ nReq' = nReq + 1
    /\ LET known == sessionId \in DOMAIN streamable
       IN  IF Truthy(sessionId) /\ Lookup(streamable, sessionId) # Missing
           THEN \* existing session: await transport.handleRequest
                /\ BagCardinality(inflight) < MaxInflight
                /\ inflight' = Add(inflight,
                       Suspend("POST /mcp", sessionId, isInit, known,
                               Lookup(streamable, sessionId), "handle"))
                /\ last' = NoAnswer
                /\ UNCHANGED tr
           ELSE IF IsNewSession(sessionId, isInit)
           THEN \* new session: event store and transport, await server.connect
                /\ tr' = Append(tr, [sessionId |-> Undefined, closed |-> FALSE])
                /\ BagCardinality(inflight) < MaxInflight
                /\ inflight' = Add(inflight,
                       Suspend("POST /mcp", sessionId, isInit, known,
                               Len(tr) + 1, "connect"))
                /\ last' = NoAnswer
           ELSE \* no valid session
                /\ last' = Answer("POST /mcp", sessionId, isInit, known, Missing,
                                  1, 400, -32000)
                /\ UNCHANGED <<tr, inflight>>
    /\ UNCHANGED <<streamable, eventStores, sse, sseOpen, nSse>>
    /\ UNCHANGED storeVars
    /\ UNCHANGED pluginVars

\* POST /mcp, new session: server.connect(transport) settles.
PostMcpConnected(r, fault) ==
    /\ r \in Suspended
    /\ r.kind = "POST /mcp" /\ r.pc = "connect"
    /\ IF fault
       THEN /\ last' = Answer(r.kind, r.sessionId, r.isInit, r.known, r.transport,
                              1, 500, -32603)
            /\ inflight' = Remove(inflight, r)
       ELSE /\ inflight' = Add(Remove(inflight, r), [r EXCEPT !.pc = "handleInit"])
            /\ last' = NoAnswer
    /\ UNCHANGED <<streamable, eventStores, sse, tr, sseOpen, nSse, nReq>>
    /\ UNCHANGED storeVars
    /\ UNCHANGED pluginVars

\* POST /mcp, new session, inside the awaited transport.handleRequest:
\* handling the initialize request the transport draws its session id and
\* calls onsessioninitialized, which registers the transport and its event
\* store under the id.
PostMcpSessionInitialized(r) ==
    /\ r \in Suspended
    /\ r.kind = "POST /mcp" /\ r.pc = "handleInit"
    /\ tr[r.transport].sessionId = Undefined
    /\ LET t == r.transport
           id == NewSessionId(t)
       IN  /\ tr' = [tr EXCEPT ![t].sessionId = id]
           /\ Register(id, t)
    /\ last' = NoAnswer
    /\ UNCHANGED <<sse, sseOpen, nSse, inflight, nReq>>
    /\ UNCHANGED storeVars
    /\ UNCHANGED pluginVars

\* POST /mcp, new session: transport.handleRequest settles.
PostMcpInitHandled(r, outcome) ==
    /\ r \in Suspended
    /\ r.kind = "POST /mcp" /\ r.pc = "handleInit"
    /\ last' = IF outcome = "throwBefore"
                THEN Answer(r.kind, r.sessionId, r.isInit, r.known, r.transport,
                            1, 500, -32603)
                ELSE Answer(r.kind, r.sessionId, r.isInit, r.known, r.transport,
                            1, 200, NoCode)
    /\ inflight' = Remove(inflight, r)
    /\ UNCHANGED <<streamable, eventStores, sse, tr, sseOpen, nSse, nReq>>
    /\ UNCHANGED storeVars
    /\ UNCHANGED pluginVars

\* POST /mcp, existing session: transport.handleRequest settles. A value
\* inherited from Object.prototype has no handleRequest: the call throws.
PostMcpHandled(r, outcome) ==
    /\ r \in Suspended
    /\ r.kind = "POST /mcp" /\ r.pc = "handle"
    /\ r.transport = NotATransport => outcome = "throwBefore"
    /\ last' = IF outcome = "throwBefore"
                THEN Answer(r.kind, r.sessionId, r.isInit, r.known, r.transport,
                            1, 500, -32603)
                ELSE Answer(r.kind, r.sessionId, r.isInit, r.known, r.transport,
                            1, 200, NoCode)
    /\ inflight' = Remove(inflight, r)
    /\ UNCHANGED <<streamable, eventStores, sse, tr, sseOpen, nSse, nReq>>
    /\ UNCHANGED storeVars
    /\ UNCHANGED pluginVars

\* GET /mcp up to its await of transport.handleRequest.
GetMcp(sessionId) ==
    /\ nReq < MaxReqs
    /\ nReq' = nReq + 1
    /\ LET known == sessionId \in DOMAIN streamable
       IN  IF ~Truthy(sessionId) \/ Lookup(streamable, sessionId) = Missing
           THEN /\ last' = SessionIdRequired(sessionId, known)
                /\ UNCHANGED inflight
           ELSE /\ BagCardinality(inflight) < MaxInflight
                /\ inflight' = Add(inflight,
                       Suspend("GET /mcp", sessionId, FALSE, known,
                               Lookup(streamable, sessionId), "handle"))
                /\ last' = NoAnswer
    /\ UNCHANGED <<streamable, eventStores, sse, tr, sseOpen, nSse>>
    /\ UNCHANGED storeVars
    /\ UNCHANGED pluginVars

\* GET /mcp: transport.handleRequest settles; the handler has no try/catch.
GetMcpHandled(r, outcome, frameworkAnswers) ==
    /\ r \in Suspended
    /\ r.kind = "GET /mcp" /\ r.pc = "handle"
    /\ r.transport = NotATransport => outcome = "throwBefore"
    /\ outcome = "throwBefore" \/ ~frameworkAnswers
    /\ last' = Unhandled(r, outcome # "throwBefore", frameworkAnswers)
    /\ inflight' = Remove(inflight, r)
    /\ UNCHANGED <<streamable, eventStores, sse, tr, sseOpen, nSse, nReq>>
    /\ UNCHANGED storeVars
    /\ UNCHANGED pluginVars

\* DELETE /mcp. The handler calls the transport's onclose callback, not its
\* close(); `fault` is the callback throwing after the handler of the
\* server ran (server.connect may have wrapped it).
DeleteMcp(sessionId, fault) ==
    /\ nReq < MaxReqs
    /\ nReq' = nReq + 1
    /\ LET known == sessionId \in DOMAIN streamable
           transport == Lookup(streamable, sessionId)
       IN  IF ~Truthy(sessionId)
           THEN /\ ~fault
                /\ last' = Answer("DELETE /mcp", sessionId, FALSE, known, Missing,
                                  1, 400, -32000)
                /\ UNCHANGED <<streamable, eventStores>>
           ELSE IF transport = Missing
           THEN /\ ~fault
                /\ last' = Answer("DELETE /mcp", sessionId, FALSE, known, Missing,
                                  1, 404, -32001)
                /\ UNCHANGED <<streamable, eventStores>>
           ELSE IF transport = NotATransport
           THEN \* no onclose property; both deletes find nothing
                /\ ~fault
                /\ streamable' = Del(streamable, sessionId)
                /\ eventStores' = Del(eventStores, sessionId)
                /\ last' = Answer("DELETE /mcp", sessionId, FALSE, known, transport,
                                  1, 200, NoCode)
           ELSE /\ streamable' = Del(streamable, sessionId)
                /\ eventStores' = Del(eventStores, sessionId)
                /\ last' = IF fault
                           THEN Answer("DELETE /mcp", sessionId, FALSE, known, transport,
                                       1, 500, -32603)
                           ELSE Answer("DELETE /mcp", sessionId, FALSE, known, transport,
                                       1, 200, NoCode)
    /\ UNCHANGED <<sse, tr, sseOpen, nSse, inflight>>
    /\ UNCHANGED storeVars
    /\ UNCHANGED pluginVars

\* GET /sse up to its await of server.connect.
GetSse ==
    /\ nReq < MaxReqs
    /\ nReq' = nReq + 1
    /\ nSse' = nSse + 1
    /\ sse' = Put(sse, SseIds[nSse + 1], nSse + 1)
    /\ sseOpen' = sseOpen \cup { nSse + 1 }
    /\ BagCardinality(inflight) < MaxInflight
    /\ inflight' = Add(inflight,
           Suspend("GET /sse", SseIds[nSse + 1], FALSE, FALSE, nSse + 1, "connect"))
    /\ last' = NoAnswer
    /\ UNCHANGED <<streamable, eventStores, tr>>
    /\ UNCHANGED storeVars
    /\ UNCHANGED pluginVars

\* GET /sse: server.connect settles (it starts the transport, which writes
\* the headers of the event stream); the handler has no try/catch.
GetSseConnected(r, outcome, frameworkAnswers) ==
    /\ r \in Suspended
    /\ r.kind = "GET /sse" /\ r.pc = "connect"
    /\ outcome = "throwBefore" \/ ~frameworkAnswers
    /\ last' = Unhandled(r, outcome # "throwBefore", frameworkAnswers)
    /\ inflight' = Remove(inflight, r)
    /\ UNCHANGED <<streamable, eventStores, sse, tr, sseOpen, nSse, nReq>>
    /\ UNCHANGED storeVars
    /\ UNCHANGED pluginVars

\* res.on("close") of GET /sse: the client disconnected.
SseDisconnect(k) ==
    /\ k \in sseOpen
    /\ sseOpen' = sseOpen \ { k }
    /\ sse' = Del(sse, SseIds[k])
    /\ last' = Answer("sse close", SseIds[k], FALSE, SseIds[k] \in DOMAIN sse, k,
                      0, 0, NoCode)
    /\ UNCHANGED <<streamable, eventStores, tr, nSse, inflight, nReq>>
    /\ UNCHANGED storeVars
    /\ UNCHANGED pluginVars

\* POST /messages up to its await of transport.handlePostMessage.
PostMessages(sessionId) ==
    /\ nReq < MaxReqs
    /\ nReq' = nReq + 1
    /\ LET known == sessionId \in DOMAIN sse
           transport == Lookup(sse, sessionId)
       IN  IF transport # Missing
           THEN /\ BagCardinality(inflight) < MaxInflight
                /\ inflight' = Add(inflight,
                       Suspend("POST /messages", sessionId, FALSE, known, transport, "handle"))
                /\ last' = NoAnswer
           ELSE /\ last' = Answer("POST /messages", sessionId, FALSE, known, Missing,
                                  1, 400, NoCode)
                /\ UNCHANGED inflight
    /\ UNCHANGED <<streamable, eventStores, sse, tr, sseOpen, nSse>>
    /\ UNCHANGED storeVars
    /\ UNCHANGED pluginVars

\* POST /messages: transport.handlePostMessage settles; no try/catch.
PostMessagesHandled(r, outcome, frameworkAnswers) ==
    /\ r \in Suspended
    /\ r.kind = "POST /messages" /\ r.pc = "handle"
    /\ r.transport = NotATransport => outcome = "throwBefore"
    /\ outcome = "throwBefore" \/ ~frameworkAnswers
    /\ last' = Unhandled(r, outcome # "throwBefore", frameworkAnswers)
    /\ inflight' = Remove(inflight, r)
    /\ UNCHANGED <<streamable, eventStores, sse, tr, sseOpen, nSse, nReq>>
    /\ UNCHANGED storeVars
    /\ UNCHANGED pluginVars

\* The connection of a streamable transport closes (the client went away):
\* the transport is closed and signals it through onclose.
TransportClose(t) ==
    /\ t \in 1..Len(tr)
    /\ ~tr[t].closed
    /\ tr' = [tr EXCEPT ![t].closed = TRUE]
    /\ OnClose(t)
    /\ last' = Answer("close", tr[t].sessionId, FALSE,
                      tr[t].sessionId \in DOMAIN streamable, t, 0, 0, NoCode)
    /\ UNCHANGED <<sse, sseOpen, nSse, inflight, nReq>>
    /\ UNCHANGED storeVars
    /\ UNCHANGED pluginVars

HttpNext ==
    \/ \E sessionId \in HeaderValues, isInit \in BOOLEAN : PostMcp(sessionId, isInit)
    \/ \E r \in Suspended, fault \in BOOLEAN : PostMcpConnected(r, fault)
    \/ \E r \in Suspended : PostMcpSessionInitialized(r)
    \/ \E r \in Suspended, outcome \in Outcomes : PostMcpInitHandled(r, outcome)
    \/ \E r \in Suspended, outcome \in Outcomes : PostMcpHandled(r, outcome)
    \/ \E sessionId \in HeaderValues : GetMcp(sessionId)
    \/ \E r \in Suspended, outcome \in Outcomes, frameworkAnswers \in BOOLEAN :
           GetMcpHandled(r, outcome, frameworkAnswers)
    \/ \E sessionId \in HeaderValues, fault \in BOOLEAN : DeleteMcp(sessionId, fault)
    \/ GetSse
    \/ \E r \in Suspended, outcome \in Outcomes, frameworkAnswers \in BOOLEAN :
           GetSseConnected(r, outcome, frameworkAnswers)
    \/ \E k \in sseOpen : SseDisconnect(k)
    \/ \E sessionId \in QueryValues : PostMessages(sessionId)
    \/ \E r \in Suspended, outcome \in Outcomes, frameworkAnswers \in BOOLEAN :
           PostMessagesHandled(r, outcome, frameworkAnswers)
    \/ \E t \in 1..Len(tr) : TransportClose(t)

\* ------------------------------------------------------------------------
\* The plugin page (main.ts): its WebSocket to the server
\* ------------------------------------------------------------------------
\* The value null of ws, pingInterval and reconnectTimeout; timer ids are
\* positive, so every id is truthy.
Null == 0

\* WebSocket.readyState
ReadyStates == { "connecting", "open", "closing", "closed" }

PluginInit ==
    /\ socks = <<>>
    /\ ws = Null
    /\ pingInterval = Null
    /\ reconnectTimeout = Null
    /\ intervals = {}
    /\ timers = {}
    /\ nIds = 0
    /\ clicks = 0
    /\ closes = 0
    /\ plast = [ev |-> "load", sock |-> Null]

\* stopPingInterval()
stopPingInterval ==
    IF pingInterval # Null
    THEN /\ intervals' = intervals \ { pingInterval }
         /\ pingInterval' = Null
    ELSE UNCHANGED <<intervals, pingInterval>>

\* startPingInterval(): stopPingInterval(), then setInterval.
startPingInterval ==
    /\ intervals' = (intervals \ { pingInterval }) \cup { nIds + 1 }
    /\ pingInterval' = nIds + 1
    /\ nIds' = nIds + 1

\* scheduleReconnect(): clearTimeout of the timeout the variable holds (a
\* no-op for one that has fired), then setTimeout.
scheduleReconnectNoClear ==
    /\ timers' = timers \cup { nIds + 1 }
    /\ reconnectTimeout' = nIds + 1
    /\ nIds' = nIds + 1
scheduleReconnect ==
    /\ timers' = (timers \ { reconnectTimeout }) \cup { nIds + 1 }
    /\ reconnectTimeout' = nIds + 1
    /\ nIds' = nIds + 1

\* connectToMcpServer() called while the sockets are `cur`: it returns at
\* once if ws is OPEN, and otherwise assigns a new WebSocket to ws without
\* closing or detaching the socket ws held.
connectToMcpServer(cur) ==
    IF ws # Null /\ cur[ws] = "open"
    THEN /\ socks' = cur
         /\ ws' = ws
    ELSE /\ socks' = Append(cur, "connecting")
         /\ ws' = Len(cur) + 1

\* A click on the connect button.
Click ==
    /\ clicks < MaxClicks
    /\ clicks' = clicks + 1
    /\ connectToMcpServer(socks)
    /\ plast' = [ev |-> "click", sock |-> ws']
    /\ UNCHANGED <<pingInterval, reconnectTimeout, intervals, timers, nIds, closes>>
    /\ UNCHANGED storeVars
    /\ UNCHANGED httpVars

\* The reconnect timeout fires: connectToMcpServer(). The variable
\* reconnectTimeout keeps the id of the timeout that fired.
ReconnectFire ==
    /\ \E id \in timers : timers' = timers \ { id }
    /\ connectToMcpServer(socks)
    /\ plast' = [ev |-> "reconnect", sock |-> ws']
    /\ UNCHANGED <<pingInterval, reconnectTimeout, intervals, nIds, clicks, closes>>
    /\ UNCHANGED storeVars
    /\ UNCHANGED httpVars

\* onopen of the socket s: startPingInterval().
SocketOpen(s) ==
    /\ socks[s] = "connecting"
    /\ socks' = [socks EXCEPT ![s] = "open"]
    /\ startPingInterval
    /\ plast' = [ev |-> "open", sock |-> s]
    /\ UNCHANGED <<ws, reconnectTimeout, timers, clicks, closes>>
    /\ UNCHANGED storeVars
    /\ UNCHANGED httpVars

\* The closing handshake of the open socket s starts (no handler runs).
SocketClosing(s) ==
    /\ socks[s] = "open"
    /\ socks' = [socks EXCEPT ![s] = "closing"]
    /\ plast' = [ev |-> "closing", sock |-> s]
    /\ UNCHANGED <<ws, pingInterval, reconnectTimeout, intervals, timers, nIds,
                   clicks, closes>>
    /\ UNCHANGED storeVars
    /\ UNCHANGED httpVars

\* onclose of the socket s (after onerror, which only updates the status
\* text, when the connection failed): stopPingInterval(); ws = null;
\* scheduleReconnect().
SocketClose(s) ==
    /\ socks[s] # "closed"
    /\ closes < MaxCloses
    /\ closes' = closes + 1
    /\ socks' = [socks EXCEPT ![s] = "closed"]
    /\ stopPingInterval
    /\ ws' = Null
    /\ scheduleReconnect
    /\ plast' = [ev |-> "close", sock |-> s]
    /\ UNCHANGED clicks
    /\ UNCHANGED storeVars
    /\ UNCHANGED httpVars

\* The ping interval fires: a ping is sent if ws is an OPEN socket.
PingFire ==
    /\ intervals # {}
    /\ plast' = [ev |-> "ping",
                 sock |-> IF ws # Null /\ socks[ws] = "open" THEN ws ELSE Null]
    /\ UNCHANGED <<socks, ws, pingInterval, reconnectTimeout, intervals, timers,
                   nIds, clicks, closes>>
    /\ UNCHANGED storeVars
    /\ UNCHANGED httpVars

PluginNext ==
    \/ Click
    \/ ReconnectFire
    \/ \E s \in 1..Len(socks) : SocketOpen(s)
    \/ \E s \in 1..Len(socks) : SocketClosing(s)
    \/ \E s \in 1..Len(socks) : SocketClose(s)
    \/ PingFire

\* ------------------------------------------------------------------------
\* Specifications
\* ------------------------------------------------------------------------
Init == StoreInit /\ HttpInit /\ PluginInit
Next == StoreNext
Spec == Init /\ [][Next]_vars

SpecHttp == Init /\ [][HttpNext]_vars

SpecPlugin == Init /\ [][PluginNext]_vars

\* The reconnect timeout, once set and not cleared, fires: the browser runs
\* the callback of a pending setTimeout.
SpecPluginLive == Init /\ [][PluginNext]_vars /\ WF_vars(ReconnectFire)

\* replayEventsAfter as a function of the store it reads: the store is drawn
\* from the stores that up to MaxHeld storeEvent calls leave behind while no
\* stream has reached the cap of the program (1000 events) and no event the
\* age limit, so that cleanupOldEvents has removed nothing; the calls fall
\* into two consecutive clock ticks.
HeldCalls ==
    UNION { [1..n -> [streamId : StreamIds, r : Rands, dt : {0, 1}]] : n \in 0..MaxHeld }

RECURSIVE SetAll(_, _)
SetAll(evs, es) ==
    IF es = <<>> THEN evs ELSE SetAll(MapSet(evs, Head(es)), Tail(es))

HeldEvent(calls, i) ==
    [id |-> generateEventId(calls[i].streamId, Epoch + calls[i].dt, calls[i].r),
     streamId |-> calls[i].streamId,
     message |-> Messages[i],
     timestamp |-> Epoch + calls[i].dt]

ReplayInit ==
    \E calls \in HeldCalls :
        /\ \A i \in 1..(Len(calls) - 1) : calls[i].dt <= calls[i + 1].dt
        /\ arrival = [i \in 1..Len(calls) |-> HeldEvent(calls, i)]
        /\ events = SetAll(<<>>, arrival)
        /\ now = Epoch + 1
        /\ replay = NoReplay
        /\ op = "init"

ReplayNext == \E lastEventId \in Markers : ReplayEventsAfter(lastEventId)

InitReplay == ReplayInit /\ HttpInit /\ PluginInit
SpecReplay == InitReplay /\ [][ReplayNext]_vars

\* ------------------------------------------------------------------------
\* Properties of the event store (specification Spec)
\* ------------------------------------------------------------------------
\* The entry of the store with the given id.
EventOf(id) == events[CHOOSE i \in 1..Len(events) : events[i].id = id]

\* The storeEvent calls whose event is in the store now: the last call that
\* returned each stored id.
Live ==
    { i \in 1..Len(arrival) :
        /\ MapHas(events, arrival[i].id)
        /\ \A j \in (i + 1)..Len(arrival) : arrival[j].id # arrival[i].id }

\* The stored events of a stream, in arrival (storeEvent call) order.
StoredInArrivalOrder(streamId) ==
    SelectSeq(arrival, LAMBDA e :
        /\ e.streamId = streamId
        /\ \E i \in Live : arrival[i] = e)

AsSend(e) == [id |-> e.id, message |-> e.message]

\* C1 (replay correctness): a replay whose marker is the stored event e_k of
\* a stream sends exactly e_{k+1}..e_n of that stream, in arrival order,
\* also when events of the stream were stored within one clock tick.
C1_ReplayInArrivalOrder ==
    (op = "replay" /\ MapHas(events, replay.marker)) =>
        LET order == StoredInArrivalOrder(EventOf(replay.marker).streamId)
            k == CHOOSE i \in 1..Len(order) : order[i].id = replay.marker
        IN  replay.sent = [i \in 1..(Len(order) - k) |-> AsSend(order[k + i])]

\* C2 (age eviction): a replay never sends an event older than the
\* retention window and never accepts such an event as its marker, whether
\* or not a storeEvent call ran since the event expired.
C2_ExpiredNeverReplayed ==
    op = "replay" =>
        /\ \A i \in 1..Len(replay.sent) : ~Expired(EventOf(replay.sent[i].id), now)
        /\ (MapHas(events, replay.marker) /\ Expired(EventOf(replay.marker), now))
               => (replay.ret = <<>> /\ replay.sent = <<>>)

\* The storeEvent calls made to a stream, as indexes of the history.
CallsTo(streamId) == { i \in 1..Len(arrival) : arrival[i].streamId = streamId }

\* C4 (eviction bound): once more than the cap of storeEvent calls were made
\* to a stream within the retention window, the store holds exactly cap
\* events of the stream, those of the cap most recent calls.
C4_CapKeepsMostRecent ==
    \A streamId \in StreamIds :
        LET calls == CallsTo(streamId)
            recent == { i \in calls :
                          Cardinality({ j \in calls : j > i }) < maxEventsPerStream }
            stored == OfStream(events, streamId)
        IN  (/\ Cardinality(calls) > maxEventsPerStream
             /\ \A i \in calls : ~Expired(arrival[i], now))
            => /\ Len(stored) = maxEventsPerStream
               /\ { stored[i] : i \in 1..Len(stored) } = { arrival[i] : i \in recent }

\* C5 (unknown marker): a replay whose marker is empty, was never stored or
\* was evicted returns the empty result, sends nothing and leaves the store
\* as it was.
C5_UnknownMarker ==
    [][(op' = "replay" /\ ~MapHas(events, replay'.marker))
          => (replay'.ret = <<>> /\ replay'.sent = <<>> /\ events' = events)]_vars

\* C5 witness: a replay ran with the id of an evicted event as its marker.
C5_Witness ==
    /\ op = "replay"
    /\ replay.marker \in Ids(arrival)
    /\ ~MapHas(events, replay.marker)
    /\ replay.ret = <<>>
    /\ events # <<>>

\* The entry with the given id in a store.
EventIn(evs, id) == evs[CHOOSE i \in 1..Len(evs) : evs[i].id = id]

\* C15 (owning stream recoverable): for every id storeEvent returned for a
\* stream s, also when s contains or begins with '_',
\* getStreamIdFromEventId(id) = s, and a replay after a stored id returns
\* the stream of that event.
C15_StreamRecoverable ==
    /\ \A i \in 1..Len(arrival) :
           getStreamIdFromEventId(arrival[i].id) = arrival[i].streamId
    /\ (op = "replay" /\ MapHas(events, replay.marker))
           => replay.ret = EventOf(replay.marker).streamId

\* C16 (event identity): the ids storeEvent returns are pairwise distinct,
\* and no step changes the stream, payload or timestamp of an event that
\* stays in the store.
C16_EventIdentity ==
    [][/\ \A i, j \in 1..Len(arrival') :
              i # j => arrival'[i].id # arrival'[j].id
       /\ \A id \in Ids(events) \cap Ids(events') :
              EventIn(events', id) = EventIn(events, id)]_vars

\* The storeEvent call of this step, and whether it brings its stream over
\* the cap (more events of the stream within the age limit than the cap,
\* the new one included).
StoredNow == arrival'[Len(arrival')]
PushesOverCap ==
    /\ op' = "store"
    /\ Len(SelectSeq(MapSet(events, StoredNow),
                     LAMBDA e : e.streamId = StoredNow.streamId /\ ~Expired(e, now)))
           > maxEventsPerStream

\* C17 (count-based eviction is per stream): a storeEvent call that brings
\* its stream A over the cap removes, besides expired events, only events
\* of A; every event of another stream that is within the age limit is
\* still stored afterwards and still replayable: a replay after it is
\* served for its stream.
C17_CapIsPerStream ==
    [][PushesOverCap =>
          /\ \A id \in Ids(events) \ Ids(events') :
                 \/ EventIn(events, id).streamId = StoredNow.streamId
                 \/ Expired(EventIn(events, id), now)
          /\ \A i \in 1..Len(events) :
                 (events[i].streamId # StoredNow.streamId /\ ~Expired(events[i], now))
                 => /\ MapHas(events', events[i].id)
                    /\ replayEventsAfter(events', events[i].id).ret
                           = events[i].streamId]_vars

\* C18 (replay ordering): the ids one replayEventsAfter call passes to send
\* are non-decreasing in id order, each is greater than the marker, and
\* every event sent belongs to the stream of the marker's event.
C18_ReplayOrdering ==
    op = "replay" =>
        /\ \A i \in 1..(Len(replay.sent) - 1) :
               ~LocaleLess(replay.sent[i + 1].id, replay.sent[i].id)
        /\ \A i \in 1..Len(replay.sent) :
               /\ LocaleLess(replay.marker, replay.sent[i].id)
               /\ MapHas(events, replay.marker)
               /\ EventOf(replay.sent[i].id).streamId
                      = EventOf(replay.marker).streamId

\* C18 witness: a replay sent two events of the marker's stream although the
\* store also holds an event of another stream.
C18_Witness ==
    /\ op = "replay"
    /\ Len(replay.sent) >= 2
    /\ \E i \in 1..Len(events) : events[i].streamId # EventOf(replay.marker).streamId

\* ------------------------------------------------------------------------
\* Properties of the HTTP handlers (specification SpecHttp)
\* ------------------------------------------------------------------------
RequestKinds == { "POST /mcp", "GET /mcp", "DELETE /mcp", "GET /sse", "POST /messages" }

\* The step answers a request (on arrival, or when an awaited call
\* settles) or completes a callback; last' is then what it answered.
Completes == last' # NoAnswer

SameMap(f, g) == DOMAIN f = DOMAIN g /\ \A k \in DOMAIN f : f[k] = g[k]
Without(f, g, key) ==
    DOMAIN f = DOMAIN g \ {key} /\ \A k \in DOMAIN f : f[k] = g[k]

\* C3 (single-response invariant): every request of every kind gets exactly
\* one HTTP response, whatever the transport or the protocol engine does.
C3_ExactlyOneResponse ==
    last.kind \in RequestKinds => last.responses = 1

\* C6 (idempotent termination): a DELETE /mcp whose session id is not
\* registered (terminated before, or never issued) is answered 404 with
\* code -32001 and changes neither the registry nor the event-store map.
C6_DeleteUnknownIsNotFound ==
    [][(Completes /\ last'.kind = "DELETE /mcp"
           /\ Truthy(last'.sessionId) /\ ~last'.known)
          => (/\ last'.status = 404 /\ last'.code = -32001 /\ last'.responses = 1
              /\ SameMap(streamable', streamable)
              /\ SameMap(eventStores', eventStores))]_vars

\* C7 (only creation path): a key is added to the streamable registry or to
\* the event-store map only inside the handling of a POST /mcp that has no
\* session id and an initialize body; the key is that transport's id.
C7_OnlyInitCreates ==
    [][\A key \in (DOMAIN streamable' \ DOMAIN streamable)
                    \cup (DOMAIN eventStores' \ DOMAIN eventStores) :
          \E r \in Suspended :
              /\ r.kind = "POST /mcp" /\ r.pc = "handleInit"
              /\ ~Truthy(r.sessionId) /\ r.isInit
              /\ tr'[r.transport].sessionId = key
              /\ r \in BagToSet(inflight')]_vars

\* C7 witness: the initialize POST of a session is being handled, the
\* session is registered, and a POST that carried a session id and an
\* initialize body was answered without a transport.
C7_Witness ==
    /\ \E r \in Suspended :
          /\ r.kind = "POST /mcp" /\ r.pc = "handleInit"
          /\ tr[r.transport].sessionId \in DOMAIN streamable
          /\ tr[r.transport].sessionId \in DOMAIN eventStores
    /\ last.kind = "POST /mcp" /\ Truthy(last.sessionId) /\ last.isInit
    /\ last.status = 400

\* C8 (explicit termination): after a DELETE /mcp of a known session id was
\* answered 200 the id is in neither map and the transport is closed.
C8_DeleteClosesTransport ==
    (last.kind = "DELETE /mcp" /\ last.known /\ last.status = 200) =>
        /\ last.sessionId \notin DOMAIN streamable
        /\ last.sessionId \notin DOMAIN eventStores
        /\ tr[last.transport].closed

\* C9 (close-driven cleanup): when the transport of a registered session
\* closes, its id leaves the registry and the event-store map and every
\* other entry of both stays as it was.
C9_CloseDeregisters ==
    [][\A t \in 1..Len(tr) :
          (/\ ~tr[t].closed /\ tr'[t].closed
           /\ tr[t].sessionId \in DOMAIN streamable)
          => /\ Without(streamable', streamable, tr[t].sessionId)
             /\ Without(eventStores', eventStores, tr[t].sessionId)]_vars

\* C9 witness: the transport of a registered session closed, its id is in
\* neither map and another session is still registered with its store.
C9_Witness ==
    /\ last.kind = "close" /\ last.known
    /\ last.sessionId \notin DOMAIN streamable
    /\ last.sessionId \notin DOMAIN eventStores
    /\ \E other \in DOMAIN streamable : other \in DOMAIN eventStores

\* C10 (no-valid-session rejection): a POST /mcp with a session id that is
\* not registered, or with no session id and a non-initialize body, is
\* answered 400 with code -32000, reaches no transport and changes neither
\* the registry nor the event stores.
C10_NoValidSessionRejected ==
    [][(Completes /\ last'.kind = "POST /mcp"
           /\ \/ (Truthy(last'.sessionId) /\ ~last'.known)
              \/ (~Truthy(last'.sessionId) /\ ~last'.isInit))
          => (/\ last'.status = 400 /\ last'.code = -32000
              /\ last'.transport = Missing
              /\ SameMap(streamable', streamable)
              /\ SameMap(eventStores', eventStores)
              /\ tr' = tr)]_vars

\* The streamable kinds of step: requests of /mcp and the close of a
\* streamable transport.
StreamableKinds == { "POST /mcp", "GET /mcp", "DELETE /mcp", "close" }

\* The session a completed step was addressed to: the session of its
\* mcp-session-id header or, for the request that created a session and for
\* a transport that closed, the session of its transport.
Addressed(a) ==
    IF a.kind = "POST /mcp" /\ ~Truthy(a.sessionId) /\ a.transport >= 1
    THEN tr'[a.transport].sessionId
    ELSE a.sessionId

\* The entry of a key is the same in two maps (present in both with one
\* value, or absent from both).
SameEntry(f, g, key) ==
    /\ key \in DOMAIN f <=> key \in DOMAIN g
    /\ key \in DOMAIN f => f[key] = g[key]

Injective(f) == \A a, b \in DOMAIN f : a # b => f[a] # f[b]

NoLongerExists(a) ==
    /\ a.kind \in { "DELETE /mcp", "GET /mcp" }
    /\ a.sessionId \in IssuedSids
    /\ ~a.known

\* C12 as the claim states it (not-found is reported distinctly): a DELETE
\* /mcp and a GET /mcp whose session id no longer exists are both answered
\* with the error code -32001.
C12_NotFoundIsDistinct ==
    NoLongerExists(last) => (last.responses = 1 /\ last.code = -32001)

\* C12, amended: a DELETE /mcp whose session id no longer exists is answered
\* 404 with the code -32001; a GET /mcp whose session id no longer exists is
\* answered 400 with no error code, as a GET without a session id is.
C12_NotFoundOnDeleteOnly ==
    NoLongerExists(last) =>
        /\ last.responses = 1
        /\ last.kind = "DELETE /mcp" => (last.status = 404 /\ last.code = -32001)
        /\ last.kind = "GET /mcp" => (last.status = 400 /\ last.code = NoCode)

\* C12 witness: a GET /mcp carried the id of a session that was created and
\* then removed, and was answered.
C12_Witness ==
    /\ NoLongerExists(last)
    /\ last.kind = "GET /mcp"
    /\ last.status = 400

\* The requests that are creating a session: suspended in the new-session
\* branch of POST /mcp.
Creating == { r \in Suspended : r.kind = "POST /mcp" /\ r.pc \in { "connect", "handleInit" } }

Delivered ==
    { r \in BagToSet(inflight') :
        /\ r.kind = "POST /messages"
        /\ CopiesIn(r, inflight') > CopiesIn(r, inflight) }

\* C14 (legacy transport lifecycle): GET /sse registers its transport under
\* the transport's own id, and an id is in the legacy registry exactly while
\* its client has not disconnected; POST /messages hands the message to a
\* transport if and only if its sessionId parameter is registered in the
\* legacy registry, and otherwise answers 400 once and changes no registry.
C14_LegacyLifecycle ==
    [][/\ nSse' = nSse + 1
              => (SseIds[nSse'] \in DOMAIN sse' /\ sse'[SseIds[nSse']] = nSse')
       /\ \A k \in 1..nSse' : SseIds[k] \in DOMAIN sse' <=> k \in sseOpen'
       /\ \A r \in Delivered :
              r.sessionId \in DOMAIN sse /\ r.transport = sse[r.sessionId]
       /\ (Completes /\ last'.kind = "POST /messages")
              => IF last'.known
                 THEN last'.transport >= 1
                 ELSE /\ last'.status = 400 /\ last'.responses = 1
                      /\ last'.transport = Missing
                      /\ SameMap(sse', sse)
                      /\ SameMap(streamable', streamable)
                      /\ SameMap(eventStores', eventStores)]_vars

\* C19 (one transport per session id): the transport registered under a
\* session id is the one that was created by the initialize request of that
\* session and drew that id, it stays the same while the id is registered,
\* and every POST /mcp or GET /mcp that carries a registered id is handed to
\* that transport.
C19_OneTransportPerSession ==
    [][/\ \A id \in DOMAIN streamable' :
              /\ streamable'[id] \in 1..Len(tr')
              /\ tr'[streamable'[id]].sessionId = id
              /\ id \in DOMAIN streamable => streamable'[id] = streamable[id]
       /\ \A r \in BagToSet(inflight') :
              (r.kind \in { "POST /mcp", "GET /mcp" } /\ r.known)
              => (r.pc = "handle" /\ tr'[r.transport].sessionId = r.sessionId)
       /\ (Completes /\ last'.kind \in { "POST /mcp", "GET /mcp" } /\ last'.known)
              => /\ last'.transport \in 1..Len(tr')
                 /\ tr'[last'.transport].sessionId = last'.sessionId]_vars

\* C19 witness: with two sessions registered, a GET /mcp that carried the id
\* of one of them was handled by a transport.
C19_Witness ==
    /\ last.kind = "GET /mcp" /\ last.known /\ last.responses = 1
    /\ last.sessionId \in DOMAIN streamable
    /\ \E other \in DOMAIN streamable : other # last.sessionId

\* C20 (registry and event stores share a lifetime): in every state between
\* two steps of the handlers the registry and the event-store map have the
\* same keys, and no event store is entered under two session ids.
C20_SharedLifetime ==
    /\ DOMAIN streamable = DOMAIN eventStores
    /\ Injective(eventStores)

\* C20 witness: one session was terminated by DELETE while the initialize
\* request of another, already registered, is still being handled.
C20_Witness ==
    /\ last.kind = "DELETE /mcp" /\ last.known /\ last.status = 200
    /\ last.sessionId \notin DOMAIN streamable
    /\ \E r \in Creating :
          /\ tr[r.transport].sessionId \in DOMAIN streamable
          /\ tr[r.transport].sessionId \in DOMAIN eventStores

\* ------------------------------------------------------------------------
\* Properties of the plugin page (specifications SpecPlugin, SpecPluginLive)
\* ------------------------------------------------------------------------
\* The sockets that are connecting or open.
LiveSocks == { s \in 1..Len(socks) : socks[s] \in { "connecting", "open" } }

\* C21 (plugin socket uniqueness): at most one WebSocket is connecting or
\* open at a time, and ws refers to it.
C21_SingleSocket ==
    /\ Cardinality(LiveSocks) <= 1
    /\ \A s \in LiveSocks : ws = s

\* C22 (plugin reconnect): at most one reconnect timeout and at most one
\* ping interval are active in every state; when a close event of a socket
\* has been handled the ping interval is stopped and exactly one reconnect
\* timeout, the one reconnectTimeout holds, is pending; and, the timeout
\* firing when it is due, every close is eventually followed by the
\* creation of a new WebSocket.
C22_Reconnect ==
    /\ [](Cardinality(timers) <= 1 /\ Cardinality(intervals) <= 1)
    /\ [](plast.ev = "close"
            => /\ intervals = {} /\ pingInterval = Null
               /\ timers = { reconnectTimeout })
    /\ \A n \in 0..(MaxClicks + MaxCloses) :
           (plast.ev = "close" /\ Len(socks) = n) ~> (Len(socks) > n)

\* C22 witness: a socket opened and started the ping interval, it closed,
\* and the reconnect timeout fired and created a new socket.
C22_Witness ==
    /\ plast.ev = "reconnect"
    /\ closes >= 1 /\ nIds >= 2
    /\ intervals = {} /\ timers = {}
    /\ ws = Len(socks) /\ ws > closes
    /\ socks[ws] = "connecting"

====
